---- MODULE Spec2Model ----
(***************************************************************************)
(* Verification model of the bank customer profiling pipeline:             *)
(*   src/src/build_features.py     FeatureAggregator                       *)
(*   src/src/cluster_profiles.py   ClusterProfiler                         *)
(*   src/src/markov_transitions.py TransitionEstimator                     *)
(*   src/src/score_final.py        ScoreFusion                             *)
(* Floating point values are carried as exact fractions <<n, d>> (d > 0);  *)
(* the missing value NaN is the fraction <<0, 0>>.                         *)
(***************************************************************************)
EXTENDS Integers, Sequences, FiniteSets, TLC

VARIABLES
    df_clusters,   \* compute_markov: the monthly state table (customer_id, month, cluster)
    markov_out,    \* compute_markov: what the call returned (counts, probs) or raised
    mm_in,         \* minmax: the column s
    mm_out,        \* minmax: the returned column
    cut_in,        \* pd.cut: a final_score in millionths
    cut_out,       \* pd.cut: the priority label
    cluster_means, \* cluster_profiles.main: per-cluster group means before .round(3)
    cards,         \* cluster_profiles.main: the profile cards it builds
    raw,           \* build_features.main: the raw monthly panel
    agg,           \* build_features.main: the per-customer feature table
    fusion_in,     \* score_final.main: the tables it reads
    final_scores,  \* score_final.main: the table it writes, or the error it raised
    fs,            \* the files of data/, models/ and reports/tables/ the stages read and write
    stage_out      \* per stage module, how the last run of its main() ended

vars == <<df_clusters, markov_out, mm_in, mm_out, cut_in, cut_out,
          cluster_means, cards, raw, agg, fusion_in, final_scores, fs, stage_out>>

(***************************************************************************)
(* Bounds of the model                                                     *)
(***************************************************************************)
MaxRows == 3        \* rows of a monthly state table

CustomerIds == {1, 2}       \* customers of the enumerated monthly tables

Months == {1, 2, 3}         \* months of the enumerated monthly tables

(***************************************************************************)
(* Exact fractions standing for float64 values                             *)
(***************************************************************************)
NaN == <<0, 0>>

IsNaN(x) == x[2] = 0

Zero == <<0, 1>>

One == <<1, 1>>

Abs(n) == IF n < 0 THEN -n ELSE n

RECURSIVE Gcd(_, _)
Gcd(a, b) == IF b = 0 THEN a ELSE Gcd(b, a % b)

\* lowest terms, positive denominator
RatNorm(x) ==
    IF IsNaN(x) THEN NaN
    ELSE LET g == Gcd(Abs(x[1]), Abs(x[2]))
             s == IF x[2] < 0 THEN -1 ELSE 1
         IN  <<s * (x[1] \div g), s * (x[2] \div g)>>

\* the operations keep a shared denominator when the operands have one
RatAdd(x, y) ==
    IF IsNaN(x) \/ IsNaN(y) THEN NaN
    ELSE IF x[2] = y[2] THEN RatNorm(<<x[1] + y[1], x[2]>>)
    ELSE RatNorm(<<x[1] * y[2] + y[1] * x[2], x[2] * y[2]>>)

RatSub(x, y) ==
    IF IsNaN(x) \/ IsNaN(y) THEN NaN
    ELSE IF x[2] = y[2] THEN <<x[1] - y[1], x[2]>>
    ELSE RatNorm(<<x[1] * y[2] - y[1] * x[2], x[2] * y[2]>>)

RatMul(x, y) ==
    IF IsNaN(x) \/ IsNaN(y) THEN NaN
    ELSE LET a == RatNorm(x)
             b == RatNorm(y)
             g1 == Gcd(Abs(a[1]), b[2])
             g2 == Gcd(Abs(b[1]), a[2])
         IN  IF a[1] = 0 \/ b[1] = 0 THEN Zero
             ELSE <<(a[1] \div g1) * (b[1] \div g2), (a[2] \div g2) * (b[2] \div g1)>>

\* x / y; a zero divisor gives NaN (0/0) - the callers never divide a nonzero by zero
RatDiv(x, y) ==
    IF IsNaN(x) \/ IsNaN(y) \/ y[1] = 0 THEN NaN
    ELSE IF x[2] = y[2] THEN RatNorm(<<x[1], y[1]>>)
    ELSE RatNorm(<<x[1] * y[2], x[2] * y[1]>>)

\* comparisons with NaN are false, as in IEEE 754
RatLess(x, y) ==
    /\ ~IsNaN(x)
    /\ ~IsNaN(y)
    /\ IF x[2] = y[2] THEN x[1] < y[1] ELSE x[1] * y[2] < y[1] * x[2]

RatEq(x, y) ==
    /\ ~IsNaN(x)
    /\ ~IsNaN(y)
    /\ IF x[2] = y[2] THEN x[1] = y[1] ELSE x[1] * y[2] = y[1] * x[2]

RatLeq(x, y) == RatLess(x, y) \/ RatEq(x, y)

RECURSIVE SumNat(_, _)
SumNat(f, S) ==
    IF S = {} THEN 0
    ELSE LET e == CHOOSE e \in S : TRUE IN f[e] + SumNat(f, S \ {e})

RECURSIVE SumRat(_, _)
SumRat(f, S) ==
    IF S = {} THEN Zero
    ELSE LET e == CHOOSE e \in S : TRUE IN RatAdd(f[e], SumRat(f, S \ {e}))

SetMax(S) == CHOOSE m \in S : \A e \in S : e <= m

(***************************************************************************)
(* TransitionEstimator: compute_markov (markov_transitions.py)             *)
(***************************************************************************)
K == 4   \* number of clusters of the partitioning model

\* states given to the rows of the enumerated tables: the lowest two and the
\* highest of 0..K-1
RowStates == {0, 1, K - 1}

MonthlyRow == [customer_id : CustomerIds, month : Months, cluster : RowStates]

KeyLeq(r, s) ==
    \/ r.customer_id < s.customer_id
    \/ r.customer_id = s.customer_id /\ r.month <= s.month

\* insert r behind every row whose key is <= its own (the sort is stable)
RECURSIVE InsertRow(_, _)
InsertRow(sorted, r) ==
    IF sorted = <<>> THEN <<r>>
    ELSE IF KeyLeq(sorted[Len(sorted)], r) THEN Append(sorted, r)
    ELSE Append(InsertRow(SubSeq(sorted, 1, Len(sorted) - 1), r), sorted[Len(sorted)])

\* df_clusters.sort_values(["customer_id", "month"])
RECURSIVE SortValues(_)
SortValues(df) ==
    IF df = <<>> THEN <<>>
    ELSE InsertRow(SortValues(SubSeq(df, 1, Len(df) - 1)), df[Len(df)])

\* df.groupby("customer_id")[col].shift(-1): position of the next row of the
\* same customer, 0 when there is none (the shifted value is then NaN)
ShiftPos(df, i) ==
    LET later == {j \in (i + 1)..Len(df) : df[j].customer_id = df[i].customer_id}
    IN  IF later = {} THEN 0 ELSE CHOOSE j \in later : \A l \in later : j <= l

\* the same without the month test: every row with a successor is kept
TransFilter_NoMonthCheck(df, i) == ShiftPos(df, i) # 0

\* rows kept by cluster_next.notna() & (month_next == month + 1)
TransFilter(df, i) ==
    /\ ShiftPos(df, i) # 0
    /\ df[ShiftPos(df, i)].month = df[i].month + 1

\* trans: the kept rows, as (cluster, cluster_next) per kept position
Trans(df) ==
    LET kept == {i \in 1..Len(df) : TransFilter(df, i)}
    IN  [i \in kept |-> <<df[i].cluster, df[ShiftPos(df, i)].cluster>>]

\* pd.crosstab(trans["cluster"], trans["cluster_next"]) reindexed on all_states
\* with fill_value=0
Crosstab(trans, states) ==
    [a \in states |-> [b \in states |->
        Cardinality({i \in DOMAIN trans : trans[i] = <<a, b>>})]]

\* all_states = range(k + 1), k the largest cluster seen in df or in trans
AllStates(df, trans) ==
    LET seen == {df[i].cluster : i \in 1..Len(df)}
                  \cup {trans[i][2] : i \in DOMAIN trans}
    IN  0..SetMax(seen)

\* counts.sum(axis=1).replace(0, np.nan)
RowDivisor(counts, states, a) ==
    LET total == SumNat(counts[a], states)
    IN  IF total = 0 THEN NaN ELSE <<total, 1>>

FillNa(x, v) == IF IsNaN(x) THEN v ELSE x

\* the same dividing by the column totals (axis=1 in place of axis=0)
RowProbs_ByColumnTotals(counts, states) ==
    [a \in states |-> [b \in states |->
        FillNa(RatDiv(<<counts[a][b], 1>>,
                      RowDivisor([x \in states |-> [y \in states |-> counts[y][x]]], states, b)),
               Zero)]]

\* counts.div(..., axis=0).fillna(0.0)
RowProbs(counts, states) ==
    [a \in states |-> [b \in states |->
        FillNa(RatDiv(<<counts[a][b], 1>>, RowDivisor(counts, states, a)), Zero)]]

\* int(max(nan, nan)) raises ValueError on an empty table
compute_markov(table) ==
    LET df == SortValues(table)
    IN  IF df = <<>> THEN [status |-> "ValueError"]
        ELSE LET trans == Trans(df)
                 states == AllStates(df, trans)
                 counts == Crosstab(trans, states)
             IN  [status |-> "ok", states |-> states, counts |-> counts,
                  probs |-> RowProbs(counts, states)]

NoResult == [status |-> "none"]

\* one customer, 21 contiguous months, states 0 x5, 1 x6, 0 x5, 1 x5:
\* transitions 0->0: 8, 0->1: 2, 1->0: 1, 1->1: 9
ScenarioStates == <<0, 0, 0, 0, 0, 1, 1, 1, 1, 1, 1, 0, 0, 0, 0, 0, 1, 1, 1, 1, 1>>

ScenarioTable == [m \in 1..Len(ScenarioStates) |->
                    [customer_id |-> 1, month |-> m, cluster |-> ScenarioStates[m]]]

(***************************************************************************)
(* Specification of compute_markov: any table of at most MaxRows rows, in  *)
(* any row order, or the 21-month scenario table                           *)
(***************************************************************************)
MarkovIdle == df_clusters = <<>> /\ markov_out = NoResult

MarkovVars == <<df_clusters, markov_out>>

AddMonthlyRow ==
    /\ markov_out = NoResult
    /\ Len(df_clusters) < MaxRows
    /\ \E r \in MonthlyRow : df_clusters' = Append(df_clusters, r)
    /\ UNCHANGED markov_out

LoadScenarioTable ==
    /\ markov_out = NoResult
    /\ df_clusters = <<>>
    /\ df_clusters' = ScenarioTable
    /\ UNCHANGED markov_out

ComputeMarkov ==
    /\ markov_out = NoResult
    /\ markov_out' = compute_markov(df_clusters)
    /\ UNCHANGED df_clusters

(***************************************************************************)
(* Properties of compute_markov                                            *)
(***************************************************************************)
Returned == markov_out.status = "ok"

RowTotal(a) == SumNat(markov_out.counts[a], markov_out.states)

\* C1: every row of the returned probability matrix is the count row divided
\* by its total when the total is positive (so it sums to 1) and is all zeros,
\* never NaN, when the total is 0; the counts 8,2 / 1,9 give 0.8,0.2 / 0.1,0.9.
C1_RowsNormalized ==
    Returned =>
        /\ \A a \in markov_out.states :
              IF RowTotal(a) > 0
              THEN /\ \A b \in markov_out.states :
                         RatEq(markov_out.probs[a][b], <<markov_out.counts[a][b], RowTotal(a)>>)
                   /\ RatEq(SumRat(markov_out.probs[a], markov_out.states), One)
              ELSE \A b \in markov_out.states : markov_out.probs[a][b] = Zero
        /\ (/\ markov_out.states = {0, 1}
              /\ markov_out.counts[0][0] = 8 /\ markov_out.counts[0][1] = 2
              /\ markov_out.counts[1][0] = 1 /\ markov_out.counts[1][1] = 9)
           => /\ RatEq(markov_out.probs[0][0], <<8, 10>>)
              /\ RatEq(markov_out.probs[0][1], <<2, 10>>)
              /\ RatEq(markov_out.probs[1][0], <<1, 10>>)
              /\ RatEq(markov_out.probs[1][1], <<9, 10>>)

\* a returned matrix with a row of total 2 split 1/1 and a row of total 0
C1_Witness ==
    /\ Returned
    /\ \E a, b, c \in markov_out.states :
          /\ b # c
          /\ markov_out.counts[a][b] = 1
          /\ markov_out.counts[a][c] = 1
          /\ RowTotal(a) = 2
    /\ \E a \in markov_out.states : RowTotal(a) = 0

\* q comes after p in the month order of p's customer (equal months keep the
\* order of the table)
After(t, p, q) ==
    /\ t[p].customer_id = t[q].customer_id
    /\ \/ t[p].month < t[q].month
       \/ t[p].month = t[q].month /\ p < q

\* q is the next row of p's customer in month order
NextRowOf(t, p, q) ==
    /\ After(t, p, q)
    /\ ~\E r \in 1..Len(t) : After(t, p, r) /\ After(t, r, q)

ValidPairs(t) ==
    {pq \in (1..Len(t)) \X (1..Len(t)) :
        NextRowOf(t, pq[1], pq[2]) /\ t[pq[2]].month = t[pq[1]].month + 1}

RECURSIVE SumCounts(_, _)
SumCounts(counts, cells) ==
    IF cells = {} THEN 0
    ELSE LET c == CHOOSE c \in cells : TRUE
         IN  counts[c[1]][c[2]] + SumCounts(counts, cells \ {c})

\* C2: counts[a][b] is the number of pairs (row, next row of the same customer
\* in month order) whose months are t and t+1 and whose states are a and b;
\* pairs across a gap, last rows and rows of different customers count nowhere,
\* and the counts add up to the number of valid pairs.
C2_CountsValidPairs ==
    Returned =>
        LET valid == ValidPairs(df_clusters)
            pairsOf(a, b) == {pq \in valid : df_clusters[pq[1]].cluster = a
                                              /\ df_clusters[pq[2]].cluster = b}
        IN  /\ \A a, b \in 0..(K - 1) :
                  IF a \in markov_out.states /\ b \in markov_out.states
                  THEN markov_out.counts[a][b] = Cardinality(pairsOf(a, b))
                  ELSE pairsOf(a, b) = {}
            /\ SumCounts(markov_out.counts, markov_out.states \X markov_out.states)
                  = Cardinality(valid)

\* an unsorted table with a counted pair and a pair of successive rows of one
\* customer that is not counted
C2_Witness ==
    /\ Returned
    /\ ValidPairs(df_clusters) # {}
    /\ \E p, q \in 1..Len(df_clusters) :
          NextRowOf(df_clusters, p, q) /\ <<p, q>> \notin ValidPairs(df_clusters)
    /\ \E p, q \in 1..Len(df_clusters) : p < q /\ ~KeyLeq(df_clusters[p], df_clusters[q])

\* C3: the returned matrices are indexed by exactly 0..k-1, k = 4, whatever
\* states occur in the table, and rows of states never seen as current state
\* are all zeros.
C3_CompleteStateSpace ==
    Returned =>
        /\ markov_out.states = 0..(K - 1)
        /\ \A a \in markov_out.states :
              (\A i \in 1..Len(df_clusters) : df_clusters[i].cluster # a)
                 => \A b \in markov_out.states :
                       markov_out.counts[a][b] = 0 /\ markov_out.probs[a][b] = Zero

(***************************************************************************)
(* ScoreFusion: minmax (score_final.py)                                    *)
(***************************************************************************)
InvAtol == 100000000   \* 1 / atol of np.isclose, atol = 1e-8

\* np.isclose(x, 0.0): |x| <= atol + rtol * |0|; false for NaN
IsCloseToZero(x) ==
    /\ ~IsNaN(x)
    /\ \/ x[1] = 0
       \/ x[2] \div Abs(x[1]) >= InvAtol

\* s.min() and s.max() skip NaN and are NaN when nothing is left
SeriesMin(s) ==
    LET idx == {i \in 1..Len(s) : ~IsNaN(s[i])}
    IN  IF idx = {} THEN NaN
        ELSE s[CHOOSE i \in idx : \A j \in idx : ~RatLess(s[j], s[i])]

SeriesMax(s) ==
    LET idx == {i \in 1..Len(s) : ~IsNaN(s[i])}
    IN  IF idx = {} THEN NaN
        ELSE s[CHOOSE i \in idx : \A j \in idx : ~RatLess(s[i], s[j])]

\* the same without the np.isclose guard
minmax_NoGuard(s) ==
    LET mn == SeriesMin(s)
        mx == SeriesMax(s)
    IN  [i \in 1..Len(s) |-> RatDiv(RatSub(s[i], mn), RatSub(mx, mn))]

minmax(s) ==
    LET mn == SeriesMin(s)
        mx == SeriesMax(s)
    IN  IF IsCloseToZero(RatSub(mx, mn))
        THEN [i \in 1..Len(s) |-> Zero]
        ELSE [i \in 1..Len(s) |-> RatDiv(RatSub(s[i], mn), RatSub(mx, mn))]

(***************************************************************************)
(* Specification of minmax: a column of at most MaxColumn values, all on   *)
(* the grid of tenths (with NaN) or all within 2e-7 of 0.5 on the grid of  *)
(* 1e-9                                                                    *)
(***************************************************************************)
MaxColumn == 3

TenthsGrid == {<<0, 10>>, <<3, 10>>, <<8, 10>>, NaN}

NanoGrid == {<<500000000, 1000000000>>, <<500000003, 1000000000>>, <<500000200, 1000000000>>}

AppendValue ==
    /\ mm_out = NoResult
    /\ Len(mm_in) < MaxColumn
    /\ \E G \in {TenthsGrid, NanoGrid} :
          /\ \A i \in 1..Len(mm_in) : mm_in[i] \in G
          /\ \E v \in G : mm_in' = Append(mm_in, v)
    /\ UNCHANGED mm_out

ApplyMinmax ==
    /\ mm_out = NoResult
    /\ mm_out' = [status |-> "ok", col |-> minmax(mm_in)]
    /\ UNCHANGED mm_in

Scaled == mm_out.status = "ok"

NoMissing(s) == s # <<>> /\ \A i \in 1..Len(s) : ~IsNaN(s[i])

IsMinOf(s, i) == \A j \in 1..Len(s) : RatLeq(s[i], s[j])

IsMaxOf(s, i) == \A j \in 1..Len(s) : RatLeq(s[j], s[i])

AllEqual(s) == \A i, j \in 1..Len(s) : RatEq(s[i], s[j])

\* every result is (v - min) / (max - min): in [0,1], 0 at the minimum, 1 at the maximum
IsLinearScaling(s, out) ==
    \A i, lo, hi \in 1..Len(s) :
        (IsMinOf(s, lo) /\ IsMaxOf(s, hi)) =>
            /\ RatEq(out[i], RatDiv(RatSub(s[i], s[lo]), RatSub(s[hi], s[lo])))
            /\ RatLeq(Zero, out[i])
            /\ RatLeq(out[i], One)
            /\ (IsMinOf(s, i) => RatEq(out[i], Zero))
            /\ (IsMaxOf(s, i) => RatEq(out[i], One))

AllZeros(out) == \A i \in 1..Len(out) : out[i] = Zero

\* C6 as stated: a column of equal values gives all zeros, every non-constant
\* column gives (v - min) / (max - min), within [0,1], 0 at the minimum and 1
\* at the maximum.
C6_AsClaimed ==
    (Scaled /\ NoMissing(mm_in)) =>
        /\ Len(mm_out.col) = Len(mm_in)
        /\ IF AllEqual(mm_in) THEN AllZeros(mm_out.col)
           ELSE IsLinearScaling(mm_in, mm_out.col)

\* C6 (amended): a column without missing values whose range max - min is at
\* most 1e-8 (a constant column in particular) gives all zeros; a column whose
\* range exceeds 1e-8 gives (v - min) / (max - min), within [0,1], 0 at the
\* minimum and 1 at the maximum.
C6_MinmaxWithTolerance ==
    (Scaled /\ NoMissing(mm_in)) =>
        /\ Len(mm_out.col) = Len(mm_in)
        /\ \A lo, hi \in 1..Len(mm_in) :
              (IsMinOf(mm_in, lo) /\ IsMaxOf(mm_in, hi)) =>
                 IF IsCloseToZero(RatSub(mm_in[hi], mm_in[lo]))
                 THEN AllZeros(mm_out.col)
                 ELSE IsLinearScaling(mm_in, mm_out.col)

\* a constant column scaled to zeros
C6_Witness ==
    /\ Scaled
    /\ Len(mm_in) = 3
    /\ NoMissing(mm_in)
    /\ AllEqual(mm_in)
    /\ AllZeros(mm_out.col)

(***************************************************************************)
(* ScoreFusion: the priority cut (score_final.py)                          *)
(***************************************************************************)
Million == 1000000   \* final_score is rounded to 6 decimals

Bins == <<<<-1, 100>>, <<33, 100>>, <<66, 100>>, <<101, 100>>>>

Labels == <<"Low", "Medium", "High">>

\* intervals closed on the left instead of on the right (right=False)
Cut_LeftClosed(x) ==
    LET hit == {i \in 1..Len(Labels) : RatLeq(Bins[i], x) /\ RatLess(x, Bins[i + 1])}
    IN  IF hit = {} THEN "NaN" ELSE Labels[CHOOSE i \in hit : TRUE]

\* pd.cut(x, bins=Bins, labels=Labels): intervals (Bins[i], Bins[i+1]];
\* NaN and values outside every interval get no label
Cut(x) ==
    LET hit == {i \in 1..Len(Labels) : RatLess(Bins[i], x) /\ RatLeq(x, Bins[i + 1])}
    IN  IF hit = {} THEN "NaN" ELSE Labels[CHOOSE i \in hit : TRUE]

(***************************************************************************)
(* Specification of the cut: every final_score (in millionths) within      *)
(* MaxOffset of 0, 0.33, 0.66 and 1                                        *)
(***************************************************************************)
MaxOffset == 20

CutInputs ==
    {m \in 0..Million :
        \E l \in {0, 330000, 660000, Million} : Abs(m - l) <= MaxOffset}

ChooseScore ==
    /\ cut_out = "none"
    /\ cut_in = 0
    /\ \E m \in CutInputs : cut_in' = m
    /\ UNCHANGED cut_out

ApplyCut ==
    /\ cut_out = "none"
    /\ cut_out' = Cut(<<cut_in, Million>>)
    /\ UNCHANGED cut_in

\* C5: Low for 0 <= final_score <= 0.33, Medium for 0.33 < final_score <= 0.66,
\* High for 0.66 < final_score <= 1: one tier for every score of [0,1], the
\* boundaries 0.33 and 0.66 in the lower tier.
C5_TiersPartition ==
    cut_out # "none" =>
        /\ cut_out \in {"Low", "Medium", "High"}
        /\ cut_out = "Low" <=> (0 <= cut_in /\ cut_in <= 330000)
        /\ cut_out = "Medium" <=> (330000 < cut_in /\ cut_in <= 660000)
        /\ cut_out = "High" <=> (660000 < cut_in /\ cut_in <= 1000000)

\* the boundary 0.66 was cut into Medium
C5_Witness == cut_in = 660000 /\ cut_out = "Medium"

(***************************************************************************)
(* ClusterProfiler: profile naming (cluster_profiles.py)                   *)
(***************************************************************************)
\* floor(n * 10^digits / d) and the remainder, digit by digit (n >= 0, d > 0)
RECURSIVE ScaledFloor(_, _, _)
ScaledFloor(n, d, digits) ==
    IF digits = 0 THEN <<n \div d, n % d>>
    ELSE LET prev == ScaledFloor(n, d, digits - 1)
         IN  <<prev[1] * 10 + (prev[2] * 10) \div d, (prev[2] * 10) % d>>

RECURSIVE Pow10(_)
Pow10(digits) == IF digits = 0 THEN 1 ELSE 10 * Pow10(digits - 1)

\* x.round(digits) for x >= 0: the nearest multiple of 10^-digits, a tie to
\* the even one
Round(x, digits) ==
    IF IsNaN(x) THEN NaN
    ELSE LET qr == ScaledFloor(x[1], x[2], digits)
             up == \/ 2 * qr[2] > x[2]
                   \/ 2 * qr[2] = x[2] /\ qr[1] % 2 = 1
         IN  <<IF up THEN qr[1] + 1 ELSE qr[1], Pow10(digits)>>

Axes == {"late_payment_rate", "income", "mean_pix", "mean_utilization"}

\* df_out.groupby("cluster")[feature_cols].mean().round(3)
Summary(means) == [c \in 1..Len(means) |-> [a \in Axes |-> Round(means[c][a], 3)]]

\* the same ranking ascending
DenseRank_Ascending(summary, a, c) ==
    1 + Cardinality({summary[o][a] : o \in {o \in 1..Len(summary) :
                                              RatLess(summary[o][a], summary[c][a])}})

\* summary2[a].rank(method="dense", ascending=False)
DenseRank(summary, a, c) ==
    1 + Cardinality({summary[o][a] : o \in {o \in 1..Len(summary) :
                                              RatLess(summary[c][a], summary[o][a])}})

NameRisk == "Digital Credito Intensivo"

NameIncome == "Alta Renda Estavel"

NameDigital == "Digital Estavel"

NameDefault == "Conservador Tradicional"

DescRisk == "Alto uso digital (PIX) e maior risco (atrasos). Perfil sensivel a gestao de credito e prevencao."

DescIncome == "Maior renda e baixo risco. Perfil com alto potencial para investimento e cross-sell premium."

DescDigital == "Uso digital alto com baixa inadimplencia. Bom candidato a expansao de portfolio (investimentos/seguros)."

DescDefault == "Uso digital moderado e baixo risco. Perfil mais tradicional, boa resposta a ofertas simples e educacao financeira."

\* the cascade with the income rule first
NameAndDesc_IncomeFirst(high_risk, high_income, high_digital) ==
    IF high_income THEN <<NameIncome, DescIncome>>
    ELSE IF high_risk /\ high_digital THEN <<NameRisk, DescRisk>>
    ELSE IF high_digital THEN <<NameDigital, DescDigital>>
    ELSE <<NameDefault, DescDefault>>

\* if / elif / elif / else of the naming loop
NameAndDesc(high_risk, high_income, high_digital) ==
    IF high_risk /\ high_digital THEN <<NameRisk, DescRisk>>
    ELSE IF high_income THEN <<NameIncome, DescIncome>>
    ELSE IF high_digital THEN <<NameDigital, DescDigital>>
    ELSE <<NameDefault, DescDefault>>

\* one card per cluster: the rounded means, the four flags of the loop, the
\* name and the description
ProfileCard(summary, c) ==
    LET high_risk == DenseRank(summary, "late_payment_rate", c) = 1
        high_income == DenseRank(summary, "income", c) = 1
        high_digital == DenseRank(summary, "mean_pix", c) = 1
        high_credit == DenseRank(summary, "mean_utilization", c) = 1
        nd == NameAndDesc(high_risk, high_income, high_digital)
    IN  [cluster |-> c - 1,
         mean |-> summary[c],
         top |-> [a \in Axes |->
                    CASE a = "late_payment_rate" -> high_risk
                      [] a = "income" -> high_income
                      [] a = "mean_pix" -> high_digital
                      [] a = "mean_utilization" -> high_credit],
         cluster_name |-> nd[1],
         profile_description |-> nd[2]]

ProfileCards(means) ==
    LET summary == Summary(means)
    IN  [status |-> "ok", rows |-> [c \in 1..Len(means) |-> ProfileCard(summary, c)]]

(***************************************************************************)
(* Specification of the profile naming: one or two clusters come out of    *)
(* the fit, their group means are 0..MaxThirds thirds of 0.001              *)
(***************************************************************************)
MaxThirds == 2

ClusterCounts == {1, 2}

MeanGrid == {<<n, 3000>> : n \in 0..MaxThirds}

ClusterProfilesMain ==
    /\ cards = NoResult
    /\ \E n \in ClusterCounts :
          \E means \in [1..n -> [Axes -> MeanGrid]] :
              /\ cluster_means' = means
              /\ cards' = ProfileCards(means)

Profiled == cards.status = "ok"

Clusters == 1..Len(cards.rows)

\* the card's (rounded) mean of c on axis a is the largest of the cards
IsTopCard(a, c) == \A o \in Clusters : RatLeq(cards.rows[o].mean[a], cards.rows[c].mean[a])

LabelOf(c) == <<cards.rows[c].cluster_name, cards.rows[c].profile_description>>

\* C7: each cluster gets the label of the first matching rule: (a) top on
\* late-payment rate and on transaction count, else (b) top on income, else
\* (c) top on transaction count, else (d) the default; rule (a) wins whatever
\* is top on income, and the description is the one of the label.
C7_FirstMatchCascade ==
    Profiled =>
        \A c \in Clusters :
            LET a == IsTopCard("late_payment_rate", c) /\ IsTopCard("mean_pix", c)
                b == IsTopCard("income", c)
                d == IsTopCard("mean_pix", c)
            IN  /\ a => LabelOf(c) = <<NameRisk, DescRisk>>
                /\ (~a /\ b) => LabelOf(c) = <<NameIncome, DescIncome>>
                /\ (~a /\ ~b /\ d) => LabelOf(c) = <<NameDigital, DescDigital>>
                /\ (~a /\ ~b /\ ~d) => LabelOf(c) = <<NameDefault, DescDefault>>
                /\ LabelOf(c) \in {<<NameRisk, DescRisk>>, <<NameIncome, DescIncome>>,
                                   <<NameDigital, DescDigital>>, <<NameDefault, DescDefault>>}

\* a cluster top on late-payment rate, transaction count and income labelled
\* (a) while another cluster is top on income too
C7_Witness ==
    /\ Profiled
    /\ \E c, o \in Clusters :
          /\ c # o
          /\ IsTopCard("late_payment_rate", c)
          /\ IsTopCard("mean_pix", c)
          /\ IsTopCard("income", c)
          /\ IsTopCard("income", o)
          /\ cards.rows[c].cluster_name = NameRisk
          /\ cards.rows[o].cluster_name = NameIncome

\* C8 as stated: a cluster is top on an axis iff its cluster mean on the axis
\* is the maximum over the clusters; tied clusters are all top and every axis
\* has a top cluster.
C8_AsClaimed ==
    Profiled =>
        \A a \in Axes :
            /\ \A c \in Clusters :
                  cards.rows[c].top[a] <=>
                     \A o \in Clusters : RatLeq(cluster_means[o][a], cluster_means[c][a])
            /\ \E c \in Clusters : cards.rows[c].top[a]

\* C8 (amended): a cluster is top on an axis iff its cluster mean rounded to 3
\* decimals is the maximum of the rounded means over the clusters; clusters
\* tied at that maximum are all top and every axis has a top cluster.
C8_TopIsMaxOfRoundedMeans ==
    Profiled =>
        \A a \in Axes :
            /\ \A c \in Clusters :
                  /\ cards.rows[c].top[a] <=> IsTopCard(a, c)
                  /\ \A o \in Clusters :
                        RatEq(Round(cluster_means[o][a], 3), Round(cluster_means[c][a], 3))
                           => (cards.rows[o].top[a] <=> cards.rows[c].top[a])
                  /\ RatEq(cards.rows[c].mean[a], Round(cluster_means[c][a], 3))
            /\ \E c \in Clusters : cards.rows[c].top[a]

\* two clusters with the same largest mean on every axis, both top on all
C8_Witness ==
    /\ Profiled
    /\ Len(cards.rows) = 2
    /\ \A a \in Axes :
          /\ cluster_means[1][a] = cluster_means[2][a]
          /\ cards.rows[1].top[a]
          /\ cards.rows[2].top[a]

(***************************************************************************)
(* FeatureAggregator: build_features.main                                  *)
(* Of the aggregated columns the model keeps customer_id, mean_balance,    *)
(* std_balance and late_payment_rate.                                      *)
(***************************************************************************)
\* floor of the square root of x >= 0, by Newton's iteration from above
RECURSIVE IsqrtFrom(_, _)
IsqrtFrom(x, r) == IF r * r <= x THEN r ELSE IsqrtFrom(x, (r + x \div r) \div 2)

Isqrt(x) == IsqrtFrom(x, IF x < 46340 THEN x + 1 ELSE 46340)

\* square root of a fraction >= 0, carried to 3 decimals
Sqrt(x) ==
    IF IsNaN(x) THEN NaN
    ELSE <<Isqrt(ScaledFloor(x[1], x[2], 6)[1]), 1000>>

RECURSIVE SeqSum(_)
SeqSum(xs) == IF xs = <<>> THEN Zero ELSE RatAdd(xs[1], SeqSum(Tail(xs)))

\* the non-null values of a column, in row order
DropNa(xs) == SelectSeq(xs, LAMBDA x : ~IsNaN(x))

\* ("col", "mean"): mean of the non-null values, NaN when there is none
Mean(xs) ==
    LET v == DropNa(xs)
    IN  IF v = <<>> THEN NaN ELSE RatDiv(SeqSum(v), <<Len(v), 1>>)

\* ("col", "std"): sample standard deviation (ddof = 1) of the non-null
\* values, NaN with fewer than two of them
Std(xs) ==
    LET v == DropNa(xs)
        mu == Mean(xs)
        sq == [i \in 1..Len(v) |-> RatMul(RatSub(v[i], mu), RatSub(v[i], mu))]
    IN  IF Len(v) < 2 THEN NaN
        ELSE Sqrt(RatDiv(SeqSum(sq), <<Len(v) - 1, 1>>))

RECURSIVE SortedSeq(_)
SortedSeq(S) ==
    IF S = {} THEN <<>>
    ELSE LET lo == CHOOSE x \in S : \A y \in S : x <= y
         IN  <<lo>> \o SortedSeq(S \ {lo})

\* the rows of one group, in row order
Group(df, id) == SelectSeq(df, LAMBDA r : r.customer_id = id)

Column(rows, col) == [i \in 1..Len(rows) |-> rows[i][col]]

\* df.groupby("customer_id").agg(...).reset_index(): one row per key, keys sorted
GroupbyAgg(df) ==
    LET keys == SortedSeq({df[i].customer_id : i \in 1..Len(df)})
    IN  [k \in 1..Len(keys) |->
            LET g == Group(df, keys[k])
            IN  [customer_id |-> keys[k],
                 mean_balance |-> Mean(Column(g, "balance")),
                 std_balance |-> Std(Column(g, "balance")),
                 late_payment_rate |-> Mean(Column(g, "late_payment"))]]

\* the same without agg["std_balance"].fillna(0)
build_features_NoFillna(df) == [status |-> "ok", rows |-> GroupbyAgg(df)]

build_features(df) ==
    LET a == GroupbyAgg(df)
    IN  [status |-> "ok",
         rows |-> [k \in 1..Len(a) |->
                     [a[k] EXCEPT !.std_balance = FillNa(a[k].std_balance, Zero)]]]

(***************************************************************************)
(* Specification of build_features: any panel of at most MaxRows rows      *)
(***************************************************************************)
RawRow == [customer_id : CustomerIds,
           balance : {<<1, 1>>, <<3, 1>>, NaN},
           late_payment : {Zero, One}]

AddRawRow ==
    /\ agg = NoResult
    /\ Len(raw) < MaxRows
    /\ \E r \in RawRow : raw' = Append(raw, r)
    /\ UNCHANGED agg

BuildFeaturesMain ==
    /\ agg = NoResult
    /\ agg' = build_features(raw)
    /\ UNCHANGED raw

Aggregated == agg.status = "ok"

RawIds == {raw[i].customer_id : i \in 1..Len(raw)}

Observations(id) == {i \in 1..Len(raw) : raw[i].customer_id = id}

\* C10: the output has exactly one row per distinct customer_id of the panel
\* and std_balance is never null; a customer with one observation has
\* std_balance = 0.
C10_OneRowPerCustomer ==
    Aggregated =>
        /\ {agg.rows[k].customer_id : k \in 1..Len(agg.rows)} = RawIds
        /\ Len(agg.rows) = Cardinality(RawIds)
        /\ \A k \in 1..Len(agg.rows) :
              /\ ~IsNaN(agg.rows[k].std_balance)
              /\ Cardinality(Observations(agg.rows[k].customer_id)) = 1
                    => agg.rows[k].std_balance = Zero

\* a customer with one observation next to a customer with two different balances
C10_Witness ==
    /\ Aggregated
    /\ Len(agg.rows) = 2
    /\ \E k \in 1..2 :
          /\ Cardinality(Observations(agg.rows[k].customer_id)) = 1
          /\ ~IsNaN(agg.rows[k].mean_balance)
          /\ agg.rows[k].std_balance = Zero
    /\ \E k \in 1..2 : RatLess(Zero, agg.rows[k].std_balance)

(***************************************************************************)
(* ScoreFusion: score_final.main                                           *)
(***************************************************************************)
\* str(cluster id), the key used on the matrix read with string labels
ClusterStr == <<"0", "1", "2", "3">>

Str(c) == ClusterStr[c + 1]

NoRiskCluster == -1         \* find_risk_cluster_id() returned None

NoName == ""                \* a null cluster_name

risk_state_name == "Low"

\* the cluster of the first card in ascending order of late_payment_rate
RiskClusterIds_MinRate(cds) ==
    IF ~cds.exists THEN {NoRiskCluster}
    ELSE {cds.rows[i].cluster :
            i \in {i \in 1..Len(cds.rows) :
                     \A j \in 1..Len(cds.rows) :
                        ~RatLess(cds.rows[j].late_payment_rate, cds.rows[i].late_payment_rate)}}

\* find_risk_cluster_id: the cluster of the first card in descending order of
\* late_payment_rate; the sort is not stable, so any card of the largest rate
\* can come first. No cards file: None.
RiskClusterIds(cds) ==
    IF ~cds.exists THEN {NoRiskCluster}
    ELSE {cds.rows[i].cluster :
            i \in {i \in 1..Len(cds.rows) :
                     \A j \in 1..Len(cds.rows) :
                        ~RatLess(cds.rows[i].late_payment_rate, cds.rows[j].late_payment_rate)}}

\* transition_to_risk(current_cluster)
transition_to_risk(M, risk_cluster_id, current_cluster) ==
    IF /\ Str(current_cluster) \in M.index
       /\ risk_cluster_id # NoRiskCluster
       /\ Str(risk_cluster_id) \in M.columns
    THEN M.cell[Str(current_cluster)][Str(risk_cluster_id)]
    ELSE NaN

\* transition_named(cluster_name)
transition_named(M, cluster_name) ==
    IF cluster_name = NoName THEN NaN
    ELSE IF cluster_name \in M.index /\ risk_state_name \in M.columns
    THEN M.cell[cluster_name][risk_state_name]
    ELSE NaN

AllNa(rows, col) == \A i \in 1..Len(rows) : IsNaN(rows[i][col])

\* the lookup without the name-based pass
PNextRisk_NumericOnly(base, M, risk_cluster_id, has_cluster_name) ==
    [i \in 1..Len(base) |->
        [base[i] EXCEPT !.p_next_risk =
            FillNa(transition_to_risk(M, risk_cluster_id, base[i].cluster), Zero)]]

\* lines 139-162: the numeric pass over every customer, the name-based pass
\* when the numeric pass left every customer unresolved and the matrix has a
\* column "Low", then fillna(0.0)
PNextRisk(base, M, risk_cluster_id, has_cluster_name) ==
    LET numeric == [i \in 1..Len(base) |->
                      [base[i] EXCEPT !.p_next_risk =
                          transition_to_risk(M, risk_cluster_id, base[i].cluster)]]
        named == IF /\ AllNa(numeric, "p_next_risk")
                    /\ risk_state_name \in M.columns
                    /\ has_cluster_name
                 THEN [i \in 1..Len(base) |->
                         [numeric[i] EXCEPT !.p_next_risk =
                             transition_named(M, numeric[i].cluster_name)]]
                 ELSE numeric
    IN  [i \in 1..Len(base) |->
            [named[i] EXCEPT !.p_next_risk = FillNa(named[i].p_next_risk, Zero)]]

\* left.merge(right, on="customer_id", how="left") for the one column col of
\* right: a row per match, one row with NaN without a match
RECURSIVE MergeLeft(_, _, _)
MergeLeft(left, right, col) ==
    IF left = <<>> THEN <<>>
    ELSE LET r == Head(left)
             matches == SelectSeq(right, LAMBDA x : x.customer_id = r.customer_id)
         IN  (IF matches = <<>> THEN <<[r EXCEPT ![col] = NaN]>>
              ELSE [i \in 1..Len(matches) |-> [r EXCEPT ![col] = matches[i][col]]])
             \o MergeLeft(Tail(left), right, col)

RECURSIVE InsertRat(_, _)
InsertRat(sorted, x) ==
    IF sorted = <<>> THEN <<x>>
    ELSE IF RatLess(x, sorted[Len(sorted)])
         THEN Append(InsertRat(SubSeq(sorted, 1, Len(sorted) - 1), x), sorted[Len(sorted)])
         ELSE Append(sorted, x)

RECURSIVE SortRat(_)
SortRat(xs) ==
    IF xs = <<>> THEN <<>>
    ELSE InsertRat(SortRat(SubSeq(xs, 1, Len(xs) - 1)), xs[Len(xs)])

\* Series.median(): of the non-null values, NaN when there is none
Median(xs) ==
    LET v == SortRat(DropNa(xs))
        n == Len(v)
    IN  IF n = 0 THEN NaN
        ELSE IF n % 2 = 1 THEN v[(n + 1) \div 2]
        ELSE RatDiv(RatAdd(v[n \div 2], v[n \div 2 + 1]), <<2, 1>>)

\* no fillna at all
FillColumn_NoFill(rows, col, v) == rows

\* Series.fillna(v) on the column col
FillColumn(rows, col, v) ==
    [i \in 1..Len(rows) |-> [rows[i] EXCEPT ![col] = FillNa(rows[i][col], v)]]

w_prop == <<50, 100>>

w_urg == <<30, 100>>

w_risk == <<20, 100>>

\* the scores with the raw p_next_risk in place of its min-max scaling
FinalScores_RawRisk(df) ==
    LET s_prop == minmax(Column(df, "propensity"))
        s_p3 == minmax(Column(df, "p_adopt_3m"))
        mm_time == minmax(Column(df, "expected_time_months"))
        s_time == [i \in 1..Len(df) |-> RatSub(One, mm_time[i])]
        s_urgency == [i \in 1..Len(df) |->
                        RatAdd(RatMul(<<6, 10>>, s_p3[i]), RatMul(<<4, 10>>, s_time[i]))]
    IN  [i \in 1..Len(df) |->
            Round(RatAdd(RatAdd(RatMul(w_prop, s_prop[i]), RatMul(w_urg, s_urgency[i])),
                         RatMul(w_risk, df[i].p_next_risk)), 6)]

\* lines 175-187: the final_score column
FinalScores(df) ==
    LET s_prop == minmax(Column(df, "propensity"))
        s_p3 == minmax(Column(df, "p_adopt_3m"))
        mm_time == minmax(Column(df, "expected_time_months"))
        s_time == [i \in 1..Len(df) |-> RatSub(One, mm_time[i])]
        s_urgency == [i \in 1..Len(df) |->
                        RatAdd(RatMul(<<6, 10>>, s_p3[i]), RatMul(<<4, 10>>, s_time[i]))]
        s_risk == minmax(Column(df, "p_next_risk"))
    IN  [i \in 1..Len(df) |->
            Round(RatAdd(RatAdd(RatMul(w_prop, s_prop[i]), RatMul(w_urg, s_urgency[i])),
                         RatMul(w_risk, s_risk[i])), 6)]

\* x goes before y in sort_values("final_score", ascending=False): NaN last
ScoreBefore(x, y) == IF IsNaN(y) THEN ~IsNaN(x) ELSE RatLess(y, x)

RECURSIVE InsertByScore(_, _)
InsertByScore(sorted, r) ==
    IF sorted = <<>> THEN <<r>>
    ELSE IF ScoreBefore(r.final_score, sorted[Len(sorted)].final_score)
         THEN Append(InsertByScore(SubSeq(sorted, 1, Len(sorted) - 1), r), sorted[Len(sorted)])
         ELSE Append(sorted, r)

\* the table written in the order of the clustered feature table
SortByScore_InputOrder(df) == df

RECURSIVE SortByScore(_)
SortByScore(df) ==
    IF df = <<>> THEN <<>>
    ELSE InsertByScore(SortByScore(SubSeq(df, 1, Len(df) - 1)), df[Len(df)])

\* main, from the tables read to the table written
score_final(in, risk_cluster_id) ==
    LET base == PNextRisk(in.base, in.M, risk_cluster_id, in.has_cluster_name)
        m1 == MergeLeft(base, in.prop, "propensity")
        m2 == MergeLeft(m1, in.surv_prob, "p_adopt_3m")
        m3 == MergeLeft(m2, in.surv_time, "expected_time_months")
        f1 == FillColumn(m3, "propensity", Zero)
        f2 == FillColumn(f1, "p_adopt_3m", Zero)
        df == FillColumn(f2, "expected_time_months",
                         Median(Column(f2, "expected_time_months")))
        final_score == FinalScores(df)
        scored == [i \in 1..Len(df) |-> [df[i] EXCEPT !.final_score = final_score[i]]]
        tiered == [i \in 1..Len(df) |->
                     [scored[i] EXCEPT !.priority = Cut(scored[i].final_score)]]
    IN  [status |-> "ok", risk_cluster_id |-> risk_cluster_id, rows |-> SortByScore(tiered)]

(***************************************************************************)
(* Specification of score_final.main: at most MaxCustomers customers taken *)
(* from a catalogue of profiles, one of five transition matrices, one of   *)
(* three profile-card files                                                *)
(***************************************************************************)
MaxCustomers == 3

\* a customer of the clustered feature table with the values of the rows it
\* has in the propensity and survival tables; NaN: no row in that table
CustomerProfiles ==
    { [cluster |-> 0, cluster_name |-> NameRisk,
       propensity |-> <<8, 10>>, p_adopt_3m |-> <<5, 10>>, expected_time_months |-> <<3, 1>>],
      [cluster |-> 1, cluster_name |-> NameIncome,
       propensity |-> <<0, 10>>, p_adopt_3m |-> <<1, 10>>, expected_time_months |-> <<1, 1>>],
      [cluster |-> 2, cluster_name |-> NameDigital,
       propensity |-> <<10, 10>>, p_adopt_3m |-> <<9, 10>>, expected_time_months |-> <<12, 1>>],
      [cluster |-> 3, cluster_name |-> NameDefault,
       propensity |-> <<0, 10>>, p_adopt_3m |-> <<1, 10>>, expected_time_months |-> <<1, 1>>],
      [cluster |-> 2, cluster_name |-> NameDigital,
       propensity |-> NaN, p_adopt_3m |-> NaN, expected_time_months |-> NaN] }

\* transition probabilities in tenths, rows and columns 0..3
Tenths == <<<<3, 2, 4, 1>>, <<5, 5, 0, 0>>, <<0, 0, 10, 0>>, <<1, 1, 8, 0>>>>

IsNumeric(label) == \E c \in 0..(K - 1) : Str(c) = label

Num(label) == CHOOSE c \in 0..(K - 1) : Str(c) = label

CellValue(r, c) ==
    IF IsNumeric(r) /\ IsNumeric(c) THEN <<Tenths[Num(r) + 1][Num(c) + 1], 10>>
    ELSE IF r = NameRisk THEN <<2, 10>>
    ELSE IF r = NameIncome THEN <<6, 10>>
    ELSE <<5, 10>>

Matrix(index, columns) ==
    [index |-> index, columns |-> columns,
     cell |-> [r \in index |-> [c \in columns |-> CellValue(r, c)]]]

\* the matrix of TransitionEstimator over 0..3, the same over 0..2, a matrix
\* of named states, a matrix with numeric and named rows, and a matrix whose
\* labels match nothing
Matrices ==
    { Matrix({"0", "1", "2", "3"}, {"0", "1", "2", "3"}),
      Matrix({"0", "1", "2"}, {"0", "1", "2"}),
      Matrix({NameRisk, NameIncome, NameDigital}, {"High", "Low"}),
      Matrix({"0", "1", NameDigital, NameDefault}, {"0", "1", "2", "3", "Low"}),
      Matrix({"High", "Medium"}, {"High", "Medium"}) }

Card(c, rate) == [cluster |-> c, late_payment_rate |-> rate]

\* no cards file, cards with cluster 2 alone at the largest late-payment
\* rate, cards with clusters 0 and 2 tied at it
CardFiles ==
    { [exists |-> FALSE, rows |-> <<>>],
      [exists |-> TRUE, rows |-> <<Card(0, <<83, 1000>>), Card(1, <<0, 1000>>),
                                   Card(2, <<125, 1000>>), Card(3, <<83, 1000>>)>>],
      [exists |-> TRUE, rows |-> <<Card(0, <<125, 1000>>), Card(1, <<0, 1000>>),
                                   Card(2, <<125, 1000>>), Card(3, <<83, 1000>>)>>] }

\* the tables before any customer is entered; a clustered table without the
\* column cluster_name is tried with the matrices that have a column "Low"
FusionInputs ==
    {f \in [base : {<<>>}, prop : {<<>>}, surv_prob : {<<>>}, surv_time : {<<>>},
            M : Matrices, cards : CardFiles, has_cluster_name : BOOLEAN] :
        f.has_cluster_name \/ risk_state_name \in f.M.columns}

BaseRow(id, p) ==
    [customer_id |-> id, cluster |-> p.cluster, cluster_name |-> p.cluster_name,
     p_next_risk |-> NaN, propensity |-> NaN, p_adopt_3m |-> NaN,
     expected_time_months |-> NaN, final_score |-> NaN, priority |-> "NaN"]

AppendIfPresent(table, id, col, v) ==
    IF IsNaN(v) THEN table ELSE Append(table, [customer_id |-> id] @@ (col :> v))

AddCustomer ==
    /\ final_scores = NoResult
    /\ Len(fusion_in.base) < MaxCustomers
    /\ \E p \in CustomerProfiles :
          LET id == Len(fusion_in.base) + 1
          IN  fusion_in' =
                [fusion_in EXCEPT
                   !.base = Append(@, BaseRow(id, p)),
                   !.prop = AppendIfPresent(@, id, "propensity", p.propensity),
                   !.surv_prob = AppendIfPresent(@, id, "p_adopt_3m", p.p_adopt_3m),
                   !.surv_time = AppendIfPresent(@, id, "expected_time_months",
                                                 p.expected_time_months)]
    /\ UNCHANGED final_scores

ScoreFinalMain ==
    /\ final_scores = NoResult
    /\ \E risk \in RiskClusterIds(fusion_in.cards) :
          final_scores' = score_final(fusion_in, risk)
    /\ UNCHANGED fusion_in

Scored == final_scores.status = "ok"

Out == final_scores.rows

Rows == 1..Len(Out)

ColMin(col) == Out[CHOOSE i \in Rows : \A j \in Rows : RatLeq(Out[i][col], Out[j][col])][col]

ColMax(col) == Out[CHOOSE i \in Rows : \A j \in Rows : RatLeq(Out[j][col], Out[i][col])][col]

\* min-max scaling of row i's value over the population, 0 on a constant column
Scaling(col, i) ==
    IF RatEq(ColMin(col), ColMax(col)) THEN Zero
    ELSE RatDiv(RatSub(Out[i][col], ColMin(col)), RatSub(ColMax(col), ColMin(col)))

Weighted(pn, p3n, tn, rn) ==
    RatAdd(RatAdd(RatMul(<<1, 2>>, pn),
                  RatMul(<<3, 10>>, RatAdd(RatMul(<<3, 5>>, p3n),
                                           RatMul(<<2, 5>>, RatSub(One, tn))))),
           RatMul(<<1, 5>>, rn))

NoMissingTime == \A i \in Rows : ~IsNaN(Out[i].expected_time_months)

\* final = 0.50 propensity_norm + 0.30 urgency + 0.20 risk_norm, to 6 decimals
FormulaHolds ==
    \A i \in Rows :
        Out[i].final_score =
            Round(Weighted(Scaling("propensity", i), Scaling("p_adopt_3m", i),
                           Scaling("expected_time_months", i), Scaling("p_next_risk", i)), 6)

HasRange(col, lo, hi) == RatEq(ColMin(col), lo) /\ RatEq(ColMax(col), hi)

ScenarioPopulation ==
    /\ HasRange("propensity", <<0, 1>>, <<1, 1>>)
    /\ HasRange("p_adopt_3m", <<1, 10>>, <<9, 10>>)
    /\ HasRange("expected_time_months", <<1, 1>>, <<12, 1>>)

ScenarioCustomer(i) ==
    /\ RatEq(Out[i].propensity, <<8, 10>>)
    /\ RatEq(Out[i].p_adopt_3m, <<5, 10>>)
    /\ RatEq(Out[i].expected_time_months, <<3, 1>>)
    /\ RatEq(Out[i].p_next_risk, <<4, 10>>)

ScenarioResult(i) ==
    /\ Out[i].final_score = <<668182, Million>>
    /\ Round(Out[i].final_score, 4) = <<6682, 10000>>
    /\ Out[i].priority = "High"

\* C4 as stated: the weighted formula holds for every customer and, in the
\* scenario population, the customer with propensity 0.8, p_adopt_3m 0.5,
\* expected time 3 and risk 0.4 gets final 0.6682 and tier High.
C4_AsClaimed ==
    (Scored /\ Rows # {} /\ NoMissingTime) =>
        /\ FormulaHolds
        /\ ScenarioPopulation => \A i \in Rows : ScenarioCustomer(i) => ScenarioResult(i)

\* C4 (amended): the weighted formula holds for every customer, risk_norm
\* being the min-max scaling of p_next_risk over the population like the
\* other three and final being rounded to 6 decimals; in the scenario
\* population, if p_next_risk ranges over [0,1] as well, the customer with
\* risk 0.4 gets final 0.668182 (0.6682 to 4 decimals) and tier High.
C4_WeightedScore ==
    (Scored /\ Rows # {} /\ NoMissingTime) =>
        /\ FormulaHolds
        /\ (ScenarioPopulation /\ HasRange("p_next_risk", <<0, 1>>, <<1, 1>>))
              => \A i \in Rows : ScenarioCustomer(i) => ScenarioResult(i)

\* the scenario population with p_next_risk over [0,1] and its customer scored
C4_Witness ==
    /\ Scored
    /\ Rows # {}
    /\ ScenarioPopulation
    /\ HasRange("p_next_risk", <<0, 1>>, <<1, 1>>)
    /\ \E i \in Rows : ScenarioCustomer(i) /\ ScenarioResult(i)

M_in == fusion_in.M

NumericResolves(i) ==
    /\ Str(Out[i].cluster) \in M_in.index
    /\ final_scores.risk_cluster_id # NoRiskCluster
    /\ Str(final_scores.risk_cluster_id) \in M_in.columns

NameResolves(i) ==
    /\ fusion_in.has_cluster_name
    /\ Out[i].cluster_name \in M_in.index
    /\ risk_state_name \in M_in.columns

NumericValue(i) == M_in.cell[Str(Out[i].cluster)][Str(final_scores.risk_cluster_id)]

NamedValue(i) == M_in.cell[Out[i].cluster_name][risk_state_name]

InBase(id) == \E b \in 1..Len(fusion_in.base) : fusion_in.base[b].customer_id = id

HasRowIn(table, id) == \E t \in 1..Len(table) : table[t].customer_id = id

InUnitInterval(x) == RatLeq(Zero, x) /\ RatLeq(x, One)

\* C15: every row of the final scores table has final_score in [0,1] and a
\* priority among Low, Medium, High, for every combination of input tables
\* that is accepted, a signal missing for all customers included.
C15_ScoreAndTierInRange ==
    Scored =>
        \A i \in Rows :
            /\ InUnitInterval(Out[i].final_score)
            /\ Out[i].priority \in {"Low", "Medium", "High"}

\* C16: the final scores table has exactly one row per customer of the
\* clustered feature table and its rows are in non-increasing order of
\* final_score.
C16_OneRowPerCustomerSorted ==
    Scored =>
        /\ Len(Out) = Len(fusion_in.base)
        /\ \A b \in 1..Len(fusion_in.base) :
              Cardinality({i \in Rows : Out[i].customer_id = fusion_in.base[b].customer_id}) = 1
        /\ \A i \in Rows : InBase(Out[i].customer_id)
        /\ \A i \in Rows : i < Len(Out) => ~RatLess(Out[i].final_score, Out[i + 1].final_score)

\* three customers written in an order that is not the order of the clustered
\* table, by strictly decreasing score
C16_Witness ==
    /\ Scored
    /\ Len(Out) = 3
    /\ Out[1].customer_id = 3
    /\ Out[3].customer_id = 1
    /\ RatLess(Out[2].final_score, Out[1].final_score)
    /\ RatLess(Out[3].final_score, Out[2].final_score)

IsMaxRateCluster(c) ==
    \E r \in 1..Len(fusion_in.cards.rows) :
        /\ fusion_in.cards.rows[r].cluster = c
        /\ \A q \in 1..Len(fusion_in.cards.rows) :
              RatLeq(fusion_in.cards.rows[q].late_payment_rate,
                     fusion_in.cards.rows[r].late_payment_rate)

\* C19: the risk cluster is a cluster whose late-payment rate in the profile
\* cards is the maximum over all clusters, and p_next_risk of a customer in
\* cluster c is the matrix entry (row c, column risk cluster) whenever both
\* exist in the matrix.
C19_RiskClusterAndEntry ==
    Scored =>
        /\ fusion_in.cards.exists => IsMaxRateCluster(final_scores.risk_cluster_id)
        /\ \A i \in Rows : NumericResolves(i) => Out[i].p_next_risk = NumericValue(i)

\* cards with cluster 2 alone at the largest rate; a customer of cluster 0 got
\* the entry (0, 2) = 0.4 and a customer of cluster 1 the entry (1, 2) = 0
C19_Witness ==
    /\ Scored
    /\ fusion_in.cards.exists
    /\ final_scores.risk_cluster_id = 2
    /\ ~IsMaxRateCluster(0)
    /\ \E i, j \in Rows :
          /\ Out[i].cluster = 0
          /\ NumericResolves(i)
          /\ Out[i].p_next_risk = <<4, 10>>
          /\ Out[j].cluster = 1
          /\ NumericResolves(j)
          /\ Out[j].p_next_risk = <<0, 10>>

PresentTimes == Column(fusion_in.surv_time, "expected_time_months")

\* C20: a customer of the clustered table without a row in the propensity or
\* survival tables is kept, with propensity 0, p_adopt_3m 0 and the median of
\* the expected times that are present (a missing value when none is), and
\* the filled values enter the min-max normalization.
C20_MissingRowsFilled ==
    Scored =>
        /\ \A b \in 1..Len(fusion_in.base) :
              \E i \in Rows : Out[i].customer_id = fusion_in.base[b].customer_id
        /\ \A i \in Rows :
              /\ ~HasRowIn(fusion_in.prop, Out[i].customer_id) => Out[i].propensity = Zero
              /\ ~HasRowIn(fusion_in.surv_prob, Out[i].customer_id) => Out[i].p_adopt_3m = Zero
              /\ ~HasRowIn(fusion_in.surv_time, Out[i].customer_id) =>
                     Out[i].expected_time_months = Median(PresentTimes)
        /\ PresentTimes # <<>> => FormulaHolds

\* a customer without any row, kept with 0, 0 and the median 2 of the expected
\* times 1 and 3 of the two others, and scored
C20_Witness ==
    /\ Scored
    /\ Len(Out) = 3
    /\ \E i \in Rows :
          /\ ~HasRowIn(fusion_in.prop, Out[i].customer_id)
          /\ ~HasRowIn(fusion_in.surv_prob, Out[i].customer_id)
          /\ ~HasRowIn(fusion_in.surv_time, Out[i].customer_id)
          /\ Out[i].propensity = Zero
          /\ Out[i].p_adopt_3m = Zero
          /\ RatEq(Out[i].expected_time_months, <<2, 1>>)
          /\ InUnitInterval(Out[i].final_score)
          /\ Out[i].priority \in {"Low", "Medium", "High"}

(***************************************************************************)
(* The stages as programs over files: what each main() reads, the checks   *)
(* it makes in order, what it writes. A table is its header and its        *)
(* content; content is carried as the expression that produced it, so two  *)
(* tables are equal exactly when the same computation on the same inputs   *)
(* wrote them.                                                             *)
(***************************************************************************)
Absent == [exists |-> FALSE]

Table(columns, data) == [exists |-> TRUE, columns |-> columns, data |-> data]

Derived(op, args) == [op |-> op, args |-> args]

\* the files of the model (reports/*.md, the metrics tables and the pickles
\* of the survival and propensity models are written and never read)
Paths ==
    {"transactions_monthly", "customer_features", "customer_features_with_cluster",
     "customer_features_with_cluster_named", "cluster_summary", "cluster_profile_cards",
     "models", "customer_monthly_with_cluster", "markov_transition_counts",
     "markov_transition_matrix", "propensity_scores", "survival_probabilities",
     "survival_expected_time", "final_scores", "sklearn"}

Stages ==
    {"build_features", "cluster_profiles", "markov_transitions", "survival_model",
     "propensity_model", "score_final"}

\* the columns generate_data.main writes to data/raw/transactions_monthly.csv
RawColumns ==
    {"customer_id", "age", "income", "month", "adopt_investment", "time_to_investment",
     "event_investment", "first_adopt_month", "balance", "card_spend", "pix_count",
     "credit_limit", "utilization", "late_payment", "uses_card", "uses_credit"}

\* build_features.main: the columns the aggregation reads and the ones it writes
AggSourceColumns ==
    {"customer_id", "age", "income", "balance", "card_spend", "utilization", "pix_count",
     "late_payment", "event_investment", "time_to_investment"}

FeatureColumns ==
    {"customer_id", "age", "income", "mean_balance", "std_balance", "mean_card_spend",
     "mean_utilization", "mean_pix", "late_payment_rate", "adopted_ever",
     "time_to_investment"}

\* cluster_profiles.main: feature_cols
feature_cols ==
    <<"age", "income", "mean_balance", "std_balance", "mean_card_spend",
      "mean_utilization", "mean_pix", "late_payment_rate">>

\* markov_transitions.load_or_train_kmeans: train_cols, also the column names
\* of the frame X that assign_clusters_monthly scores
train_cols ==
    <<"age", "income", "m12_mean_balance", "m12_std_balance", "m12_mean_card_spend",
      "m12_mean_utilization", "m12_mean_pix", "m12_late_payment_rate">>

\* markov_transitions.build_monthly_table: cols
monthly_cols ==
    <<"customer_id", "month", "age", "income", "balance", "card_spend", "utilization",
      "pix_count", "late_payment">>

Range(q) == {q[i] : i \in 1..Len(q)}

\* [c for c in cols if c not in columns], as a set
MissingFrom(cols, columns) == {c \in Range(cols) : c \notin columns}

NoModel == [fitted_by |-> "none"]

\* StandardScaler().fit + KMeans(n_clusters=4, n_init=20, random_state=seed).fit
\* on the columns cols of a table: the seed is fixed, so the fitted pair is a
\* function of the training content and the columns. feature_names_in_ is
\* cols when the fit was made on a DataFrame.
Fit(stage, data, cols) ==
    [fitted_by |-> stage, trained_on |-> cols, feature_names_in |-> cols,
     n_features |-> Len(cols), data |-> data]

NoOutcome ==
    [status |-> "none", names |-> {}, model |-> NoModel, sourced |-> "none",
     inputs |-> <<>>, in_order |-> FALSE]

Outcome(status, names) ==
    [status |-> status, names |-> names, model |-> NoModel, sourced |-> "none"]

\* a stage that raised leaves the files as they were
Raised(files, status, names) == [fs |-> files, out |-> Outcome(status, names)]

Completed(files) == [fs |-> files, out |-> Outcome("ok", {})]

\* build_features.main
build_features_main(files) ==
    LET df == files["transactions_monthly"]
    IN  IF ~df.exists THEN Raised(files, "FileNotFoundError", {})
        ELSE IF "customer_id" \notin df.columns
        THEN Raised(files, "KeyError", {"customer_id"})
        ELSE IF ~(AggSourceColumns \subseteq df.columns)
        THEN Raised(files, "KeyError", AggSourceColumns \ df.columns)
        ELSE Completed([files EXCEPT !["customer_features"] =
                           Table(FeatureColumns, Derived("build_features", <<df.data>>))])

\* cluster_profiles.main: fits its scaler and KMeans in memory and writes the
\* clustered tables, the summary and the cards; it persists no model
cluster_profiles_main(files) ==
    LET df == files["customer_features"]
        km == Fit("cluster_profiles", df.data, feature_cols)
        df_out == Derived("fit_predict", <<km, df.data>>)
    IN  IF ~df.exists THEN Raised(files, "FileNotFoundError", {})
        ELSE IF MissingFrom(feature_cols, df.columns) # {}
        THEN Raised(files, "KeyError", MissingFrom(feature_cols, df.columns))
        ELSE [fs |-> [files EXCEPT
                        !["customer_features_with_cluster"] =
                            Table(df.columns \cup {"cluster", "cluster_name"}, df_out),
                        !["cluster_summary"] =
                            Table({"cluster"} \cup Range(feature_cols),
                                  Derived("summary", <<df_out>>)),
                        !["cluster_profile_cards"] =
                            Table({"cluster", "cluster_name", "n_customers",
                                   "profile_description"} \cup Range(feature_cols),
                                  Derived("cards", <<df_out>>)),
                        !["customer_features_with_cluster_named"] =
                            Table(df.columns \cup {"cluster", "cluster_name"}, df_out)],
              out |-> [Outcome("ok", {}) EXCEPT !.model = km, !.sourced = "fit"]]

ModelFile(model) == [exists |-> TRUE, model |-> model]

\* the installed scikit-learn: whether transform() raises on feature names
\* other than those seen in fit (later versions) or only warns (earlier ones)
Sklearn(raises_on_names) == [exists |-> TRUE, raises_on_names |-> raises_on_names]

\* scaler.transform(X) on the frame X of assign_clusters_monthly, whose
\* columns are train_cols: scikit-learn raises ValueError on another number
\* of features; on other feature names it raises or only warns, by version;
\* a scaler fitted without feature names is applied as it is
TransformRaises(model, files) ==
    IF model.n_features # Len(train_cols) THEN TRUE
    ELSE IF model.feature_names_in # <<>> /\ model.feature_names_in # train_cols
    THEN files["sklearn"].raises_on_names
    ELSE FALSE

\* load_or_train_kmeans persisting a pair refitted after the one it returns
load_or_train_kmeans_PersistsRefit(files) ==
    LET df == files["customer_features"]
        km == Fit("markov_transitions", df.data, train_cols)
        refit == Fit("markov_transitions", Derived("refit", <<df.data>>), train_cols)
    IN  IF files["models"].exists
        THEN [status |-> "ok", model |-> files["models"].model, sourced |-> "load",
              fs |-> files]
        ELSE IF ~df.exists THEN [status |-> "FileNotFoundError", names |-> {}]
        ELSE IF MissingFrom(train_cols, df.columns) # {}
        THEN [status |-> "KeyError", names |-> MissingFrom(train_cols, df.columns)]
        ELSE [status |-> "ok", model |-> km, sourced |-> "fit",
              fs |-> [files EXCEPT !["models"] = ModelFile(refit)]]

\* load_or_train_kmeans: the persisted pair when models/scaler.pkl and
\* models/kmeans.pkl exist (no check of what it was trained on), else a fit
\* on train_cols of customer_features.csv, which is persisted
load_or_train_kmeans(files) ==
    LET df == files["customer_features"]
        km == Fit("markov_transitions", df.data, train_cols)
    IN  IF files["models"].exists
        THEN [status |-> "ok", model |-> files["models"].model, sourced |-> "load",
              fs |-> files]
        ELSE IF ~df.exists THEN [status |-> "FileNotFoundError", names |-> {}]
        ELSE IF MissingFrom(train_cols, df.columns) # {}
        THEN [status |-> "KeyError", names |-> MissingFrom(train_cols, df.columns)]
        ELSE [status |-> "ok", model |-> km, sourced |-> "fit",
              fs |-> [files EXCEPT !["models"] = ModelFile(km)]]

\* build_monthly_table: the check of the nine columns
build_monthly_table(raw_table) ==
    LET missing == MissingFrom(monthly_cols, raw_table.columns)
    IN  IF missing # {} THEN [status |-> "ValueError", names |-> missing]
        ELSE [status |-> "ok", data |-> Derived("build_monthly_table", <<raw_table.data>>)]

\* markov_transitions.main
markov_transitions_main(files) ==
    LET raw_table == files["transactions_monthly"]
        df_month == build_monthly_table(raw_table)
        loaded == load_or_train_kmeans(files)
        df_clusters_data == Derived("assign_clusters_monthly", <<loaded.model, df_month.data>>)
        written ==
            [loaded.fs EXCEPT
               !["customer_monthly_with_cluster"] =
                   Table(Range(monthly_cols) \cup {"cluster"}, df_clusters_data),
               !["markov_transition_counts"] =
                   Table({"state"}, Derived("counts", <<df_clusters_data>>)),
               !["markov_transition_matrix"] =
                   Table({"state"}, Derived("probs", <<df_clusters_data>>))]
    IN  IF ~raw_table.exists THEN Raised(files, "FileNotFoundError", {})
        ELSE IF df_month.status # "ok" THEN Raised(files, df_month.status, df_month.names)
        ELSE IF loaded.status # "ok" THEN Raised(files, loaded.status, loaded.names)
        ELSE IF TransformRaises(loaded.model, files)
        THEN [fs |-> loaded.fs,
              out |-> [Outcome("ValueError", {}) EXCEPT
                         !.model = loaded.model, !.sourced = loaded.sourced]]
        ELSE [fs |-> written,
              out |-> [Outcome("ok", {}) EXCEPT
                         !.model = loaded.model, !.sourced = loaded.sourced]]

\* the first of the paths that exists, Absent when none does
FirstExisting(files, paths) ==
    IF \E i \in 1..Len(paths) : files[paths[i]].exists
    THEN files[paths[CHOOSE i \in 1..Len(paths) :
                       /\ files[paths[i]].exists
                       /\ \A j \in 1..(i - 1) : ~files[paths[j]].exists]]
    ELSE Absent

\* survival_model.main: candidate_cols (candidate_num of propensity_model.main)
candidate_cols ==
    <<"age", "income", "m12_mean_balance", "m12_std_balance", "m12_mean_card_spend",
      "m12_mean_utilization", "m12_mean_pix", "m12_late_payment_rate", "m3_mean_balance",
      "m3_std_balance", "m3_mean_card_spend", "m3_mean_utilization", "m3_mean_pix",
      "m3_late_payment_rate", "cluster">>

\* survival_model.main
survival_model_main(files) ==
    LET df == FirstExisting(files, <<"customer_features_with_cluster_named",
                                     "customer_features_with_cluster", "customer_features">>)
        covariates == df.columns \cap Range(candidate_cols)
        fitted == Derived("CoxPHFitter", <<df.data, [columns |-> covariates]>>)
    IN  IF ~df.exists THEN Raised(files, "FileNotFoundError", {})
        ELSE IF "time_to_investment" \notin df.columns
        THEN Raised(files, "ValueError", {"time_to_investment"})
        ELSE IF "adopted_ever" \notin df.columns
        THEN Raised(files, "ValueError", {"adopted_ever"})
        ELSE IF "customer_id" \notin df.columns
        THEN Raised(files, "KeyError", {"customer_id"})
        ELSE Completed([files EXCEPT
                          !["survival_probabilities"] =
                              Table({"customer_id", "p_adopt_3m", "p_adopt_6m", "p_adopt_9m"},
                                    Derived("probs", <<fitted>>)),
                          !["survival_expected_time"] =
                              Table({"customer_id", "expected_time_months"},
                                    Derived("exp_time", <<fitted>>))])

\* propensity_model.main
propensity_model_main(files) ==
    LET df == FirstExisting(files, <<"customer_features_with_cluster_named",
                                     "customer_features_with_cluster">>)
        num_cols == df.columns \cap Range(candidate_cols)
        cat_cols == df.columns \cap {"cluster_name"}
    IN  IF ~df.exists THEN Raised(files, "FileNotFoundError", {})
        ELSE IF "adopted_ever" \notin df.columns
        THEN Raised(files, "ValueError", {"adopted_ever"})
        ELSE IF "customer_id" \notin df.columns
        THEN Raised(files, "KeyError", {"customer_id"})
        ELSE Completed([files EXCEPT
                          !["propensity_scores"] =
                              Table({"customer_id", "propensity_investment"},
                                    Derived("predict_proba",
                                            <<df.data, [columns |-> num_cols \cup cat_cols]>>))])

\* find_risk_cluster_id at the level of files: whether the cards are used
CardsUsable(files) ==
    LET c == files["cluster_profile_cards"]
    IN  /\ c.exists
        /\ c.columns \cap {"late_payment_rate", "m12_late_payment_rate",
                           "m3_late_payment_rate"} # {}
        /\ "cluster" \in c.columns

\* load_markov_matrix without the check that the file exists
load_markov_matrix_NoCheck(files) == [status |-> "ok", data |-> Derived("no_matrix", <<>>)]

\* load_markov_matrix
load_markov_matrix(files) ==
    IF ~files["markov_transition_matrix"].exists THEN [status |-> "FileNotFoundError"]
    ELSE [status |-> "ok", data |-> files["markov_transition_matrix"].data]

\* score_final.main: the reads and checks in the order of the code, then the
\* write of final_scores.csv (the column cluster_name is added to it when the
\* name-based lookup ran)
score_final_main(files) ==
    LET base == FirstExisting(files, <<"customer_features_with_cluster_named",
                                       "customer_features_with_cluster">>)
        prop == files["propensity_scores"]
        surv_prob == files["survival_probabilities"]
        surv_time == files["survival_expected_time"]
        M == load_markov_matrix(files)
        cards_data == IF CardsUsable(files) THEN files["cluster_profile_cards"].data
                      ELSE Derived("None", <<>>)
    IN  IF ~base.exists THEN Raised(files, "FileNotFoundError", {})
        ELSE IF "customer_id" \notin base.columns \/ "cluster" \notin base.columns
        THEN Raised(files, "ValueError", {"customer_id", "cluster"})
        ELSE IF ~prop.exists THEN Raised(files, "FileNotFoundError", {})
        ELSE IF "customer_id" \notin prop.columns
        THEN Raised(files, "ValueError", {"customer_id"})
        ELSE IF prop.columns \ {"customer_id"} = {} THEN Raised(files, "IndexError", {})
        ELSE IF ~surv_prob.exists \/ ~surv_time.exists
        THEN Raised(files, "FileNotFoundError", {})
        ELSE IF surv_prob.columns \ {"customer_id"} = {} \/ "customer_id" \notin surv_prob.columns
        THEN Raised(files, "KeyError", {"customer_id"} \ surv_prob.columns)
        ELSE IF ~({"customer_id", "expected_time_months"} \subseteq surv_time.columns)
        THEN Raised(files, "KeyError",
                    {"customer_id", "expected_time_months"} \ surv_time.columns)
        ELSE IF M.status # "ok" THEN Raised(files, M.status, {})
        ELSE Completed([files EXCEPT !["final_scores"] =
                           Table({"customer_id", "cluster", "p_next_risk", "propensity",
                                  "p_adopt_3m", "expected_time_months", "final_score",
                                  "priority"},
                                 Derived("score_final",
                                         <<base.data, prop.data, surv_prob.data,
                                           surv_time.data, M.data, cards_data>>))])

\* the tables a stage reads, as they are on disk
InputsOf(stage, files) ==
    CASE stage = "build_features" -> <<files["transactions_monthly"]>>
      [] stage = "cluster_profiles" -> <<files["customer_features"]>>
      [] stage = "markov_transitions" ->
            <<files["transactions_monthly"], files["customer_features"]>>
      [] stage = "survival_model" ->
            <<files["customer_features_with_cluster_named"],
              files["customer_features_with_cluster"], files["customer_features"]>>
      [] stage = "propensity_model" ->
            <<files["customer_features_with_cluster_named"],
              files["customer_features_with_cluster"]>>
      [] stage = "score_final" ->
            <<files["customer_features_with_cluster_named"],
              files["customer_features_with_cluster"], files["cluster_profile_cards"],
              files["markov_transition_matrix"], files["propensity_scores"],
              files["survival_probabilities"], files["survival_expected_time"]>>

\* the tables a stage writes
OutputsOf(stage, files) ==
    CASE stage = "build_features" -> <<files["customer_features"]>>
      [] stage = "cluster_profiles" ->
            <<files["customer_features_with_cluster"], files["cluster_summary"],
              files["cluster_profile_cards"], files["customer_features_with_cluster_named"]>>
      [] stage = "markov_transitions" ->
            <<files["customer_monthly_with_cluster"], files["markov_transition_counts"],
              files["markov_transition_matrix"]>>
      [] stage = "survival_model" ->
            <<files["survival_probabilities"], files["survival_expected_time"]>>
      [] stage = "propensity_model" -> <<files["propensity_scores"]>>
      [] stage = "score_final" -> <<files["final_scores"]>>

\* the dependency order of the stages
StageOrder ==
    <<"build_features", "cluster_profiles", "markov_transitions", "survival_model",
      "propensity_model", "score_final">>

Before(stage) ==
    {StageOrder[i] : i \in {i \in 1..Len(StageOrder) :
                               \E j \in (i + 1)..Len(StageOrder) : StageOrder[j] = stage}}

\* every stage before this one in the order has run and its last run completed
InOrder(stage) == \A s \in Before(stage) : stage_out[s].status = "ok"

\* one run of a stage's main(): r is the way it ended
Ran(stage, r) ==
    /\ fs' = r.fs
    /\ stage_out' = [stage_out EXCEPT ![stage] =
                        r.out @@ [inputs |-> InputsOf(stage, fs), in_order |-> InOrder(stage)]]

RunBuildFeatures == Ran("build_features", build_features_main(fs))

RunClusterProfiles == Ran("cluster_profiles", cluster_profiles_main(fs))

RunMarkovTransitions == Ran("markov_transitions", markov_transitions_main(fs))

RunSurvivalModel == Ran("survival_model", survival_model_main(fs))

RunPropensityModel == Ran("propensity_model", propensity_model_main(fs))

RunScoreFinal == Ran("score_final", score_final_main(fs))

\* no file but the installed library
NoFiles == [p \in Paths |-> IF p = "sklearn" THEN Sklearn(TRUE) ELSE Absent]

NoRuns == [s \in Stages |-> NoOutcome]

\* the panel generate_data.main writes
RawPanel == Table(RawColumns, Derived("generate_data", <<>>))

\* a customer_features.csv under the m12_ column names that train_cols and
\* candidate_cols ask for (no stage of the repository writes these names)
LegacyFeatures ==
    Table({"customer_id", "adopted_ever", "time_to_investment"} \cup Range(train_cols),
          Derived("m12_features", <<>>))

\* pairs found in models/ that no run of markov_transitions persisted: one
\* fitted on train_cols, one fitted on a frame with the columns feature_cols,
\* one fitted on the same columns as an array (no feature names), one fitted
\* on six columns
FoundModels ==
    LET other(cols) == Fit("other", Derived("other_features", <<>>), cols)
    IN  { other(train_cols),
          other(feature_cols),
          [other(feature_cols) EXCEPT !.feature_names_in = <<>>],
          other(SubSeq(feature_cols, 1, 6)) }

\* the trained feature schema of a model is the schema of the frame scored
SchemaMatches(model) == model.trained_on = train_cols

\* the files after the stages that complete from the raw panel alone, and the
\* transition tables of a run of markov_transitions over LegacyFeatures
ProducedFiles ==
    LET f0 == [NoFiles EXCEPT !["transactions_monthly"] = RawPanel]
        f1 == build_features_main(f0).fs
        f2 == cluster_profiles_main(f1).fs
        f3 == survival_model_main(f2).fs
        f4 == propensity_model_main(f3).fs
        mk == markov_transitions_main([f0 EXCEPT !["customer_features"] = LegacyFeatures])
    IN  [f4 EXCEPT !["markov_transition_matrix"] = mk.fs["markov_transition_matrix"]]

ScoreFusionInputs ==
    {"customer_features_with_cluster_named", "customer_features_with_cluster",
     "cluster_profile_cards", "markov_transition_matrix", "propensity_scores",
     "survival_probabilities", "survival_expected_time"}

\* a header without the columns of drop
Without(table, drop) == [table EXCEPT !.columns = @ \ drop]

(***************************************************************************)
(* Properties of the stages as programs over files                         *)
(***************************************************************************)
HasRun(stage) == stage_out[stage].status # "none"

CompletedRun(stage) == stage_out[stage].status = "ok"

ClusteredAbsent ==
    /\ ~fs["customer_features_with_cluster_named"].exists
    /\ ~fs["customer_features_with_cluster"].exists

CardsAbsent == ~fs["cluster_profile_cards"].exists

\* one of the tables read through an existence check is absent
CheckedInputAbsent ==
    \/ ClusteredAbsent
    \/ ~fs["markov_transition_matrix"].exists
    \/ ~fs["propensity_scores"].exists
    \/ ~fs["survival_probabilities"].exists
    \/ ~fs["survival_expected_time"].exists

AbortedUnwritten ==
    /\ stage_out["score_final"].status = "FileNotFoundError"
    /\ ~fs["final_scores"].exists

\* C11 as stated: score_final aborts with an error, before writing the final
\* scores table, whenever the clustered feature table, the profile cards, the
\* transition matrix, the propensity scores, the survival probabilities or the
\* survival expected time is absent.
C11_AsClaimed ==
    HasRun("score_final") => ((CheckedInputAbsent \/ CardsAbsent) => AbortedUnwritten)

\* C11 (amended): score_final aborts with FileNotFoundError, before writing
\* the final scores table, whenever the clustered feature table (both of its
\* files), the transition matrix, the propensity scores, the survival
\* probabilities or the survival expected time is absent; with these present
\* it completes and writes the table, also when the profile cards are absent.
C11_AbortOnMissingInput ==
    HasRun("score_final") =>
        IF CheckedInputAbsent THEN AbortedUnwritten
        ELSE CompletedRun("score_final") /\ fs["final_scores"].exists

\* a run with only the transition matrix absent, aborted with nothing written
C11_Witness ==
    /\ HasRun("score_final")
    /\ ~fs["markov_transition_matrix"].exists
    /\ \A p \in ScoreFusionInputs \ {"markov_transition_matrix"} : fs[p].exists
    /\ AbortedUnwritten

\* the table survival_model, propensity_model and score_final read first
ClusteredTable == FirstExisting(fs, <<"customer_features_with_cluster_named",
                                      "customer_features_with_cluster">>)

MissingOf(required, table) == required \ table.columns

\* C12: a stage whose input table lacks required columns fails before
\* producing output and its message names every missing column:
\* build_monthly_table names exactly the missing ones of its nine columns;
\* the checks of survival_model and score_final name all the missing columns,
\* not only the first.
C12_AllMissingColumnsNamed ==
    /\ (HasRun("markov_transitions") /\ fs["transactions_monthly"].exists
          /\ MissingFrom(monthly_cols, fs["transactions_monthly"].columns) # {}) =>
            /\ stage_out["markov_transitions"].status = "ValueError"
            /\ stage_out["markov_transitions"].names =
                   MissingFrom(monthly_cols, fs["transactions_monthly"].columns)
            /\ ~fs["customer_monthly_with_cluster"].exists
    /\ (HasRun("survival_model") /\ ClusteredTable.exists
          /\ MissingOf({"time_to_investment", "adopted_ever"}, ClusteredTable) # {}) =>
            /\ stage_out["survival_model"].status = "ValueError"
            /\ MissingOf({"time_to_investment", "adopted_ever"}, ClusteredTable)
                   \subseteq stage_out["survival_model"].names
    /\ (HasRun("score_final") /\ ClusteredTable.exists
          /\ MissingOf({"customer_id", "cluster"}, ClusteredTable) # {}) =>
            /\ stage_out["score_final"].status = "ValueError"
            /\ MissingOf({"customer_id", "cluster"}, ClusteredTable)
                   \subseteq stage_out["score_final"].names
            /\ ~fs["final_scores"].exists

\* C13: markov_transitions labels monthly rows with a persisted model only
\* when the model's trained feature schema is the schema of the frame it
\* scores; with a persisted model of another schema the run fails and writes
\* no transition matrix.
C13_SchemaGate ==
    /\ CompletedRun("markov_transitions") => SchemaMatches(stage_out["markov_transitions"].model)
    /\ (HasRun("markov_transitions") /\ fs["models"].exists
          /\ ~SchemaMatches(fs["models"].model)) =>
            /\ stage_out["markov_transitions"].status \notin {"none", "ok"}
            /\ ~fs["markov_transition_matrix"].exists

\* C14: once a stage has completed on its input tables, as long as these are
\* unchanged every later step - a re-run of the stage included - leaves the
\* stage completed and its output tables identical; so the run of
\* markov_transitions that fits and persists a model and the next run, which
\* loads it, write the same monthly states and the same transition matrix.
C14_RerunIdempotent ==
    [][\A s \in Stages :
          (stage_out[s].status = "ok" /\ stage_out[s].inputs = InputsOf(s, fs)) =>
              /\ stage_out'[s].status = "ok"
              /\ OutputsOf(s, fs') = OutputsOf(s, fs)]_vars

\* markov_transitions has completed a run that loaded the pair an earlier run
\* of it fitted on the feature table still on disk, and the tables on disk are
\* those of that pair
C14_Witness ==
    LET out == stage_out["markov_transitions"]
    IN  /\ out.status = "ok"
        /\ out.sourced = "load"
        /\ fs["customer_features"].exists
        /\ out.model = Fit("markov_transitions", fs["customer_features"].data, train_cols)
        /\ out.inputs = InputsOf("markov_transitions", fs)
        /\ fs["markov_transition_matrix"].exists
        /\ fs["markov_transition_matrix"].data.args[1].args[1] = out.model

\* C17: when markov_transitions runs after cluster_profiles has completed, the
\* pair it labels the monthly states with is the pair cluster_profiles fitted,
\* found persisted under models/
C17_UsesProfilerModel ==
    (HasRun("markov_transitions") /\ stage_out["markov_transitions"].in_order) =>
        /\ fs["models"].exists
        /\ fs["models"].model = stage_out["cluster_profiles"].model
        /\ stage_out["markov_transitions"].model = stage_out["cluster_profiles"].model

\* C18: from the raw panel alone, a stage run after every earlier stage of the
\* dependency order has completed finds all it reads and completes, its
\* tables written; so the run of score_final writes final_scores.
C18_CleanRunCompletes ==
    \A s \in Stages :
        (HasRun(s) /\ stage_out[s].in_order) =>
            /\ CompletedRun(s)
            /\ \A i \in DOMAIN OutputsOf(s, fs) : OutputsOf(s, fs)[i].exists

(***************************************************************************)
(* Specifications, one per stage function                                  *)
(***************************************************************************)
MinmaxIdle == mm_in = <<>> /\ mm_out = NoResult

CutIdle == cut_in = 0 /\ cut_out = "none"

ProfilerIdle == cluster_means = <<>> /\ cards = NoResult

FeaturesIdle == raw = <<>> /\ agg = NoResult

FusionIdle == fusion_in = NoResult /\ final_scores = NoResult

PipelineIdle == fs = NoResult /\ stage_out = NoResult

InitMarkov ==
    MarkovIdle /\ MinmaxIdle /\ CutIdle /\ ProfilerIdle /\ FeaturesIdle /\ FusionIdle /\ PipelineIdle

NextMarkov ==
    \/ AddMonthlyRow /\ UNCHANGED <<mm_in, mm_out, cut_in, cut_out, cluster_means, cards, raw, agg, fusion_in, final_scores, fs, stage_out>>
    \/ LoadScenarioTable /\ UNCHANGED <<mm_in, mm_out, cut_in, cut_out, cluster_means, cards, raw, agg, fusion_in, final_scores, fs, stage_out>>
    \/ ComputeMarkov /\ UNCHANGED <<mm_in, mm_out, cut_in, cut_out, cluster_means, cards, raw, agg, fusion_in, final_scores, fs, stage_out>>

SpecMarkov == InitMarkov /\ [][NextMarkov]_vars

InitMinmax == InitMarkov

NextMinmax ==
    \/ AppendValue /\ UNCHANGED <<df_clusters, markov_out, cut_in, cut_out, cluster_means, cards, raw, agg, fusion_in, final_scores, fs, stage_out>>
    \/ ApplyMinmax /\ UNCHANGED <<df_clusters, markov_out, cut_in, cut_out, cluster_means, cards, raw, agg, fusion_in, final_scores, fs, stage_out>>

SpecMinmax == InitMinmax /\ [][NextMinmax]_vars

InitCut == InitMarkov

NextCut ==
    \/ ChooseScore /\ UNCHANGED <<df_clusters, markov_out, mm_in, mm_out, cluster_means, cards, raw, agg, fusion_in, final_scores, fs, stage_out>>
    \/ ApplyCut /\ UNCHANGED <<df_clusters, markov_out, mm_in, mm_out, cluster_means, cards, raw, agg, fusion_in, final_scores, fs, stage_out>>

SpecCut == InitCut /\ [][NextCut]_vars

InitProfiler == InitMarkov

NextProfiler ==
    ClusterProfilesMain /\ UNCHANGED <<df_clusters, markov_out, mm_in, mm_out, cut_in, cut_out, raw, agg, fusion_in, final_scores, fs, stage_out>>

SpecProfiler == InitProfiler /\ [][NextProfiler]_vars

InitFeatures == InitMarkov

NextFeatures ==
    \/ AddRawRow /\ UNCHANGED <<df_clusters, markov_out, mm_in, mm_out, cut_in, cut_out, cluster_means, cards, fusion_in, final_scores, fs, stage_out>>
    \/ BuildFeaturesMain /\ UNCHANGED <<df_clusters, markov_out, mm_in, mm_out, cut_in, cut_out, cluster_means, cards, fusion_in, final_scores, fs, stage_out>>

SpecFeatures == InitFeatures /\ [][NextFeatures]_vars

InitFusion ==
    /\ MarkovIdle /\ MinmaxIdle /\ CutIdle /\ ProfilerIdle /\ FeaturesIdle
    /\ fusion_in \in FusionInputs
    /\ final_scores = NoResult
    /\ PipelineIdle

NextFusion ==
    \/ AddCustomer /\ UNCHANGED <<df_clusters, markov_out, mm_in, mm_out, cut_in, cut_out, cluster_means, cards, raw, agg, fs, stage_out>>
    \/ ScoreFinalMain /\ UNCHANGED <<df_clusters, markov_out, mm_in, mm_out, cut_in, cut_out, cluster_means, cards, raw, agg, fs, stage_out>>

SpecFusion == InitFusion /\ [][NextFusion]_vars

\* score_final.main over every subset of its input files
InitFusionFiles ==
    /\ MarkovIdle /\ MinmaxIdle /\ CutIdle /\ ProfilerIdle /\ FeaturesIdle /\ FusionIdle
    /\ \E present \in SUBSET ScoreFusionInputs :
          fs = [p \in Paths |-> IF p \in present THEN ProducedFiles[p] ELSE NoFiles[p]]
    /\ stage_out = NoRuns

NextFusionFiles ==
    RunScoreFinal /\ UNCHANGED <<df_clusters, markov_out, mm_in, mm_out, cut_in, cut_out, cluster_means, cards, raw, agg, fusion_in, final_scores>>

SpecFusionFiles == InitFusionFiles /\ [][NextFusionFiles]_vars

\* the stages that check columns, over a raw panel without some of the nine
\* columns of build_monthly_table or clustered tables without some of the
\* columns checked by survival_model and score_final
InitSchema ==
    /\ MarkovIdle /\ MinmaxIdle /\ CutIdle /\ ProfilerIdle /\ FeaturesIdle /\ FusionIdle
    /\ \/ \E drop \in SUBSET Range(monthly_cols) :
             fs = [ProducedFiles EXCEPT !["transactions_monthly"] = Without(@, drop)]
       \/ \E drop \in SUBSET {"customer_id", "cluster", "time_to_investment", "adopted_ever"} :
             fs = [ProducedFiles EXCEPT
                     !["customer_features_with_cluster_named"] = Without(@, drop),
                     !["customer_features_with_cluster"] = Without(@, drop)]
    /\ stage_out = NoRuns

NextSchema ==
    \/ RunMarkovTransitions /\ UNCHANGED <<df_clusters, markov_out, mm_in, mm_out, cut_in, cut_out, cluster_means, cards, raw, agg, fusion_in, final_scores>>
    \/ RunSurvivalModel /\ UNCHANGED <<df_clusters, markov_out, mm_in, mm_out, cut_in, cut_out, cluster_means, cards, raw, agg, fusion_in, final_scores>>
    \/ RunScoreFinal /\ UNCHANGED <<df_clusters, markov_out, mm_in, mm_out, cut_in, cut_out, cluster_means, cards, raw, agg, fusion_in, final_scores>>

SpecSchema == InitSchema /\ [][NextSchema]_vars

\* the six stages run in any order and any number of times, from the raw
\* panel with or without a feature table and a model pair found on disk
InitPipeline ==
    /\ MarkovIdle /\ MinmaxIdle /\ CutIdle /\ ProfilerIdle /\ FeaturesIdle /\ FusionIdle
    /\ \E features \in {Absent, LegacyFeatures} :
       \E models \in {Absent} \cup {ModelFile(km) : km \in FoundModels} :
       \E raises_on_names \in BOOLEAN :
          fs = [NoFiles EXCEPT !["transactions_monthly"] = RawPanel,
                               !["customer_features"] = features,
                               !["models"] = models,
                               !["sklearn"] = Sklearn(raises_on_names)]
    /\ stage_out = NoRuns

NextPipeline ==
    \/ RunBuildFeatures /\ UNCHANGED <<df_clusters, markov_out, mm_in, mm_out, cut_in, cut_out, cluster_means, cards, raw, agg, fusion_in, final_scores>>
    \/ RunClusterProfiles /\ UNCHANGED <<df_clusters, markov_out, mm_in, mm_out, cut_in, cut_out, cluster_means, cards, raw, agg, fusion_in, final_scores>>
    \/ RunMarkovTransitions /\ UNCHANGED <<df_clusters, markov_out, mm_in, mm_out, cut_in, cut_out, cluster_means, cards, raw, agg, fusion_in, final_scores>>
    \/ RunSurvivalModel /\ UNCHANGED <<df_clusters, markov_out, mm_in, mm_out, cut_in, cut_out, cluster_means, cards, raw, agg, fusion_in, final_scores>>
    \/ RunPropensityModel /\ UNCHANGED <<df_clusters, markov_out, mm_in, mm_out, cut_in, cut_out, cluster_means, cards, raw, agg, fusion_in, final_scores>>
    \/ RunScoreFinal /\ UNCHANGED <<df_clusters, markov_out, mm_in, mm_out, cut_in, cut_out, cluster_means, cards, raw, agg, fusion_in, final_scores>>

SpecPipeline == InitPipeline /\ [][NextPipeline]_vars

\* the same from the raw panel alone: no processed table, no persisted model
InitCleanRun ==
    /\ MarkovIdle /\ MinmaxIdle /\ CutIdle /\ ProfilerIdle /\ FeaturesIdle /\ FusionIdle
    /\ fs = [NoFiles EXCEPT !["transactions_monthly"] = RawPanel]
    /\ stage_out = NoRuns

SpecCleanRun == InitCleanRun /\ [][NextPipeline]_vars

====
